---- MODULE Spec2Model ----
(***************************************************************************)
(* A model of bart_evaluator.py: the evaluation script that loads a CSV of *)
(* reference / predicted transcriptions, fits a TF-IDF vectorizer, finds   *)
(* the bart_minimal* model directories, and for each of them generates     *)
(* corrected text, scores it and writes three CSV reports.                 *)
(*                                                                         *)
(* Text that the script manipulates character by character (directory and  *)
(* file names) is a sequence of one-character strings.  Transcriptions are *)
(* sequences of words.  Calls into third-party libraries whose results the *)
(* script only passes on (generation, scoring) are kept as the terms of    *)
(* their arguments or as a choice among the values they can return.        *)
(***************************************************************************)
EXTENDS Integers, Sequences, FiniteSets, TLC

VARIABLES
    pc,                   \* position of the script
    csv,                  \* the rows of llm_evaluation_summary.csv, as written in the file
    listing,              \* os.listdir('.') with os.path.isdir of every entry
    data,                 \* the DataFrame `data`
    dropped,              \* index labels that dropna removed (before reset_index)
    references,
    original_predictions,
    vectorizer,
    reference_vectors,
    original_pred_vectors,
    fit_count,            \* number of calls of vectorizer.fit
    model_dirs,
    k,                    \* position of the for-loop over model_dirs (1-based)
    loaded,               \* the directories from_pretrained succeeded on, in order
    max_length,
    bart_predictions,
    results_per_sample,
    files,                \* the files written by to_csv: name -> content
    writes,               \* every to_csv call so far: <<position in model_dirs, file name>>
    stdout,               \* the lines printed so far
    metric_calls,         \* the arguments of the metric calls of each scored sample
    error,                \* the step whose exception ended the run, or None
    call,                 \* a call of one of the two functions on its own
    ret                   \* its outcome

vars == <<pc, csv, listing, data, dropped, references, original_predictions,
          vectorizer, reference_vectors, original_pred_vectors, fit_count,
          model_dirs, k, loaded, max_length, bart_predictions,
          results_per_sample, files, writes, stdout, metric_calls, error,
          call, ret>>

-----------------------------------------------------------------------------
(* Bounds of the model *)

MaxPieces == 4       \* pieces a directory name is built from, after the prefix
MaxRows == 4         \* rows of the CSV when the loader runs alone
MaxRecs == 2         \* rows of the DataFrame given to count_outliers alone
MaxSamples == 2      \* rows of the CSV in a full run
MaxEntries == 2      \* entries of the working directory in a full run

-----------------------------------------------------------------------------
(* Python strings *)

None == "None"

\* s[i..] begins with sub
StartsAt(s, sub, i) ==
    /\ i + Len(sub) - 1 <= Len(s)
    /\ \A j \in 1..Len(sub) : s[i + j - 1] = sub[j]

\* str.startswith
startswith(s, prefix) == StartsAt(s, prefix, 1)

RECURSIVE Find(_, _, _)
\* str.find from position i (1-based); 0 when sub does not occur
Find(s, sub, i) ==
    IF i + Len(sub) - 1 > Len(s) THEN 0
    ELSE IF StartsAt(s, sub, i) THEN i
    ELSE Find(s, sub, i + 1)

\* `sub in s`
Contains(s, sub) == Find(s, sub, 1) # 0

RECURSIVE split(_, _)
\* str.split(sep): the pieces between the occurrences of sep, left to right
split(s, sep) ==
    LET i == Find(s, sep, 1) IN
    IF i = 0 THEN <<s>>
    ELSE <<SubSeq(s, 1, i - 1)>> \o split(SubSeq(s, i + Len(sep), Len(s)), sep)

Last(seq) == seq[Len(seq)]

DigitChars == <<"0", "1", "2", "3", "4", "5", "6", "7", "8", "9">>

IsDigit(c) == \E d \in 1..10 : DigitChars[d] = c

DigitVal(c) == (CHOOSE d \in 1..10 : DigitChars[d] = c) - 1

IsSpace(c) == c \in {" ", "\t", "\n", "\r"}

RECURSIVE lstrip(_)
lstrip(s) == IF s # <<>> /\ IsSpace(s[1]) THEN lstrip(Tail(s)) ELSE s

RECURSIVE rstrip(_)
rstrip(s) ==
    IF s # <<>> /\ IsSpace(s[Len(s)]) THEN rstrip(SubSeq(s, 1, Len(s) - 1)) ELSE s

strip(s) == rstrip(lstrip(s))

\* The digits part of a decimal literal as int() accepts it: digits, with
\* single underscores between digits only.
IsDigitPart(s) ==
    /\ s # <<>>
    /\ IsDigit(s[1])
    /\ IsDigit(s[Len(s)])
    /\ \A i \in 1..Len(s) : IsDigit(s[i]) \/ s[i] = "_"
    /\ \A i \in 1..(Len(s) - 1) : ~(s[i] = "_" /\ s[i + 1] = "_")

RECURSIVE DecimalValue(_)
\* the value of the digits of s, underscores skipped
DecimalValue(s) ==
    IF s = <<>> THEN 0
    ELSE LET init == SubSeq(s, 1, Len(s) - 1)
             c == s[Len(s)]
         IN IF c = "_" THEN DecimalValue(init)
            ELSE 10 * DecimalValue(init) + DigitVal(c)

\* int(text) for a str argument, base 10: surrounding whitespace is
\* stripped, one sign is allowed, and the rest must be a digits part.
\* Anything else raises ValueError.
int(text) ==
    LET t == strip(text)
        signed == t # <<>> /\ t[1] \in {"+", "-"}
        body == IF signed THEN Tail(t) ELSE t
    IN IF IsDigitPart(body)
       THEN [exc |-> None,
             val |-> IF signed /\ t[1] = "-"
                     THEN 0 - DecimalValue(body) ELSE DecimalValue(body)]
       ELSE [exc |-> "ValueError", val |-> 0]

-----------------------------------------------------------------------------
(* get_max_length_from_dir *)

ML_MARKER == <<"_", "m", "l">>

\* The outcome of a call: a returned value, or an exception that left it.
Return(v) == [raised |-> None, value |-> v]
Raise(e) == [raised |-> e, value |-> 0]

get_max_length_from_dir(dir_name, default) ==
    IF Contains(dir_name, ML_MARKER)
    THEN LET max_length_str == Last(split(dir_name, ML_MARKER))
             parsed == int(max_length_str)
         IN IF parsed.exc = None THEN Return(parsed.val)
            ELSE IF parsed.exc = "ValueError" THEN Return(default)
            ELSE Raise(parsed.exc)
    ELSE Return(default)

-----------------------------------------------------------------------------
(* count_outliers *)

\* A metric value is a float: NaN, or a rational n / d with d positive.
Num(n, d) == [nan |-> FALSE, n |-> n, d |-> d]

NaN == [nan |-> TRUE, n |-> 0, d |-> 1]

\* Series.between(left, right), inclusive on both sides; False for NaN
between(v, left, right) ==
    IF v.nan THEN FALSE
    ELSE left * v.d <= v.n /\ v.n <= right * v.d

METRICS == <<"WER", "CER", "BLEU", "Cosine Similarity">>

\* outlier_conditions: metric -> one flag per row of df
outlier_conditions(df) ==
    [m \in {"BLEU", "WER", "CER", "Cosine Similarity"} |->
        [i \in 1..Len(df) |->
            IF m = "BLEU" THEN ~between(df[i][m], 0, 100)
            ELSE ~between(df[i][m], 0, 1)]]

\* Series.sum of a boolean series
CountTrue(flags) == Cardinality({i \in DOMAIN flags : flags[i]})

\* np.logical_and.reduce in its place
logical_and_reduce(conds) ==
    [i \in DOMAIN conds["BLEU"] |-> \A m \in DOMAIN conds : conds[m][i]]

\* np.logical_or.reduce over the four condition series, row by row
logical_or_reduce(conds) ==
    [i \in DOMAIN conds["BLEU"] |-> \E m \in DOMAIN conds : conds[m][i]]

count_outliers(df) ==
    LET conds == outlier_conditions(df)
        any_outlier_condition == logical_or_reduce(conds)
    IN [key \in DOMAIN conds \cup {"Total Outliers"} |->
          IF key = "Total Outliers" THEN CountTrue(any_outlier_condition)
          ELSE CountTrue(conds[key])]

-----------------------------------------------------------------------------
(* The input table and the loader *)

COLUMNS == {"True Transcription", "Predicted Transcription", "Notes"}

SUBSET_COLUMNS == {"True Transcription", "Predicted Transcription"}

\* A field of the file is a sequence of words; <<>> is an empty field.
\* read_csv reads an empty field, and a field that is one of its default
\* NA markers, as a missing value; any other field as a str.
NA_MARKERS == {<<"NA">>, <<"NaN">>, <<"null">>, <<"None">>, <<"nan">>, <<"N/A">>}

Str(words) == [isnull |-> FALSE, words |-> words]

Missing == [isnull |-> TRUE, words |-> <<>>]

parse_field(field) ==
    IF field = <<>> \/ field \in NA_MARKERS THEN Missing ELSE Str(field)

\* pd.read_csv: a DataFrame is a sequence of labelled rows, the labels
\* being 0, 1, 2, ... as read.
read_csv(rows) ==
    [i \in 1..Len(rows) |->
        [label |-> i - 1, row |-> [c \in COLUMNS |-> parse_field(rows[i][c])]]]

isna(v) == v.isnull

\* dropna without its subset argument: any NaN in the row drops it
dropna_every_column(df, cols) ==
    SelectSeq(df, LAMBDA r : \A c \in COLUMNS : ~isna(r.row[c]))

\* dropna with how='all': a row goes only when all the columns are NaN
dropna_how_all(df, cols) ==
    SelectSeq(df, LAMBDA r : \E c \in cols : ~isna(r.row[c]))

\* DataFrame.dropna(subset=cols), how='any': a row goes when any of the
\* columns of subset is NaN
dropna(df, cols) ==
    SelectSeq(df, LAMBDA r : \A c \in cols : ~isna(r.row[c]))

\* DataFrame.reset_index(drop=True)
reset_index(df) == [i \in 1..Len(df) |-> [label |-> i - 1, row |-> df[i].row]]

\* df[column].tolist()
tolist(df, column) == [i \in 1..Len(df) |-> df[i].row[column]]

Labels(df) == {df[i].label : i \in 1..Len(df)}

-----------------------------------------------------------------------------
(* TfidfVectorizer *)

WordsOf(doc) == {doc.words[i] : i \in 1..Len(doc.words)}

\* TfidfVectorizer.fit(docs): the vocabulary and the document frequencies
\* that the idf weights are computed from.  It raises ValueError on an
\* empty vocabulary.
fit(docs) ==
    LET vocabulary == UNION {WordsOf(docs[i]) : i \in 1..Len(docs)} IN
    IF vocabulary = {} THEN Raise("ValueError")
    ELSE Return([vocabulary |-> vocabulary,
                 n_docs |-> Len(docs),
                 df |-> [w \in vocabulary |->
                          Cardinality({i \in 1..Len(docs) : w \in WordsOf(docs[i])})]])

\* TfidfVectorizer.transform(docs): one vector per document, each the
\* image of that document in the space of the fitted vectorizer
transform(v, docs) ==
    [i \in 1..Len(docs) |-> [space |-> v, doc |-> docs[i]]]

-----------------------------------------------------------------------------
(* Names *)

PREFIX == <<"b", "a", "r", "t", "_", "m", "i", "n", "i", "m", "a", "l">>

DETAILED_SUFFIX == <<"_", "d", "e", "t", "a", "i", "l", "e", "d", "_", "e", "v", "a", "l", "u", "a", "t", "i", "o", "n", ".", "c", "s", "v">>

SUMMARY_SUFFIX == <<"_", "s", "u", "m", "m", "a", "r", "y", "_", "e", "v", "a", "l", "u", "a", "t", "i", "o", "n", ".", "c", "s", "v">>

OUTLIER_SUFFIX == <<"_", "o", "u", "t", "l", "i", "e", "r", "_", "c", "o", "u", "n", "t", "s", ".", "c", "s", "v">>

DEFAULT_MAX_LENGTH == 128

\* the detailed file named without the directory in front
output_file_unprefixed(model_dir) == DETAILED_SUFFIX

\* f'{model_dir}_detailed_evaluation.csv' and the two others
output_file(model_dir) == model_dir \o DETAILED_SUFFIX
summary_file(model_dir) == model_dir \o SUMMARY_SUFFIX
outlier_counts_file(model_dir) == model_dir \o OUTLIER_SUFFIX

-----------------------------------------------------------------------------
(* Model discovery, generation and scoring *)

\* the comprehension without its os.path.isdir test
discover_any_entry(entries) ==
    LET kept == SelectSeq(entries, LAMBDA e : startswith(e.name, PREFIX))
    IN [i \in 1..Len(kept) |-> kept[i].name]

\* the list comprehension over os.listdir('.')
discover(entries) ==
    LET kept == SelectSeq(entries, LAMBDA e : e.isdir /\ startswith(e.name, PREFIX))
    IN [i \in 1..Len(kept) |-> kept[i].name]

\* tokenizer(...), model.generate(...) and tokenizer.decode(...) for one
\* text: the corrected text is what this model decodes from this input
\* under this length
generate_corrected(dir, length, pred_text) ==
    [model |-> dir,
     max_new_tokens |-> length,
     inputs |-> [tokenizer |-> dir, text |-> pred_text, max_length |-> length]]

\* the first reference vector taken for every sample
cosine_args_first_row(ref_vecs, vec, i, bart_pred) ==
    [ref_vector |-> ref_vecs[1], bart_vector |-> transform(vec, <<bart_pred>>)[1]]

\* the vectors whose cosine similarity is sample i's score
cosine_args(ref_vecs, vec, i, bart_pred) ==
    [ref_vector |-> ref_vecs[i], bart_vector |-> transform(vec, <<bart_pred>>)[1]]

\* the arguments of wer, cer, corpus_bleu and cosine_similarity for sample i
metric_args(refs, ref_vecs, vec, i, bart_pred) ==
    [wer |-> <<refs[i], bart_pred>>,
     cer |-> <<refs[i], bart_pred>>,
     bleu |-> [hypotheses |-> <<bart_pred>>, refs |-> <<<<refs[i]>>>>],
     cosine |-> cosine_args(ref_vecs, vec, i, bart_pred)]

\* values the four metric calls can return for one sample
LibraryScores ==
    { [m \in {"WER", "CER", "BLEU", "Cosine Similarity"} |->
         CASE m = "WER" -> Num(0, 1) [] m = "CER" -> Num(0, 1)
           [] m = "BLEU" -> Num(100, 1) [] OTHER -> Num(1, 1)],
      [m \in {"WER", "CER", "BLEU", "Cosine Similarity"} |->
         CASE m = "WER" -> Num(3, 2) [] m = "CER" -> Num(1, 2)
           [] m = "BLEU" -> Num(0, 1) [] OTHER -> Num(0, 1)] }

\* the dict with the reference and the original prediction exchanged
result_row_swapped(dir, ref, orig, bart_pred, scores) ==
    [key \in {"Model", "True Transcription", "Original Prediction", "BART Corrected",
              "WER", "CER", "BLEU", "Cosine Similarity"} |->
        CASE key = "Model" -> dir
          [] key = "True Transcription" -> orig
          [] key = "Original Prediction" -> ref
          [] key = "BART Corrected" -> bart_pred
          [] OTHER -> scores[key]]

\* one dict appended to results_per_sample
result_row(dir, ref, orig, bart_pred, scores) ==
    [key \in {"Model", "True Transcription", "Original Prediction", "BART Corrected",
              "WER", "CER", "BLEU", "Cosine Similarity"} |->
        CASE key = "Model" -> dir
          [] key = "True Transcription" -> ref
          [] key = "Original Prediction" -> orig
          [] key = "BART Corrected" -> bart_pred
          [] OTHER -> scores[key]]

\* summary_df: per metric, the mean and the median of its column
summary_table(df) ==
    [j \in 1..Len(METRICS) |->
        [Metric |-> METRICS[j],
         mean_of |-> [i \in 1..Len(df) |-> df[i][METRICS[j]]],
         median_of |-> [i \in 1..Len(df) |-> df[i][METRICS[j]]]]]

\* print(...): a line is its fixed text and the value formatted into it
Line(text, arg) == [text |-> text, arg |-> arg]

print(out, text, arg) == Append(out, Line(text, arg))

\* DataFrame.to_csv(name): the file is created or overwritten
to_csv(fs, name, content) ==
    [n \in DOMAIN fs \cup {name} |-> IF n = name THEN content ELSE fs[n]]

-----------------------------------------------------------------------------
(* The states a run starts from *)

Row(ref, pred, notes) ==
    [c \in COLUMNS |->
        CASE c = "True Transcription" -> ref
          [] c = "Predicted Transcription" -> pred
          [] OTHER -> notes]

SeqsUpTo(S, n) == UNION {[1..m -> S] : m \in 0..n}

\* rows of the CSV of a full run: two complete rows and one without prediction
RunRows ==
    { Row(<<"alpha", "bravo">>, <<"alpha", "charlie">>, <<>>),
      Row(<<"delta">>, <<"delta">>, <<"ok">>),
      Row(<<"echo">>, <<>>, <<>>) }

\* rows of the CSV when the loader runs alone
LoaderRows ==
    { Row(ref, pred, notes) :
        ref \in {<<"NA">>, <<"alpha">>, <<"bravo">>},
        pred \in {<<>>, <<"delta">>},
        notes \in {<<>>, <<"ok">>} }

\* entries the working directory can hold
DirEntries ==
    { [name |-> <<"b", "a", "r", "t", "_", "m", "i", "n", "i", "m", "a", "l", "_", "m", "l", "2">>, isdir |-> TRUE],
      [name |-> <<"b", "a", "r", "t", "_", "m", "i", "n", "i", "m", "a", "l">>, isdir |-> TRUE],
      [name |-> <<"b", "a", "r", "t", "_", "m", "i", "n", "i", "m", "a", "l", "_", "m", "l", "x">>, isdir |-> FALSE],
      [name |-> <<"m", "y", "_", "b", "a", "r", "t", "_", "m", "i", "n", "i", "m", "a", "l">>, isdir |-> TRUE] }

\* os.listdir returns each name once, in any order
Listings ==
    { l \in SeqsUpTo(DirEntries, MaxEntries) :
        \A i, j \in 1..Len(l) : i # j => l[i].name # l[j].name }

NoVectorizer == [vocabulary |-> {}, n_docs |-> 0, df |-> <<>>]

NoCall == [fn |-> None, dir_name |-> <<>>, default |-> 0, df |-> <<>>]

\* everything the script has not yet assigned
Unassigned ==
    /\ data = <<>>
    /\ dropped = {}
    /\ references = <<>>
    /\ original_predictions = <<>>
    /\ vectorizer = NoVectorizer
    /\ reference_vectors = <<>>
    /\ original_pred_vectors = <<>>
    /\ fit_count = 0
    /\ model_dirs = <<>>
    /\ k = 0
    /\ loaded = <<>>
    /\ max_length = 0
    /\ bart_predictions = <<>>
    /\ results_per_sample = <<>>
    /\ files = <<>>
    /\ writes = <<>>
    /\ stdout = <<>>
    /\ metric_calls = <<>>
    /\ error = None
    /\ ret = Return(0)

Init ==
    /\ pc = "start"
    /\ csv \in SeqsUpTo(RunRows, MaxSamples)
    /\ listing \in Listings
    /\ call = NoCall
    /\ Unassigned

-----------------------------------------------------------------------------
(* The script, step by step *)

\* a failed load caught and tried again
CrashUnlessLoad(step) ==
    /\ pc' = IF step = "from_pretrained" THEN pc ELSE "crashed"
    /\ error' = step

\* nothing in the script catches an exception: the one that is raised ends the run
Crash(step) ==
    /\ pc' = "crashed"
    /\ error' = step

\* lines 85-90
Load ==
    /\ pc = "start"
    /\ LET frame == read_csv(csv)
           kept == dropna(frame, SUBSET_COLUMNS)
       IN /\ data' = reset_index(kept)
          /\ dropped' = Labels(frame) \ Labels(kept)
    /\ references' = tolist(data', "True Transcription")
    /\ original_predictions' = tolist(data', "Predicted Transcription")
    /\ pc' = "loaded"
    /\ stdout' = print(stdout, "Loading test data...", <<>>)
    /\ UNCHANGED <<csv, listing, vectorizer, reference_vectors, original_pred_vectors,
                   fit_count, model_dirs, k, loaded, max_length, bart_predictions,
                   results_per_sample, files, writes, metric_calls, error, call, ret>>

\* line 86 raising: the file is missing or cannot be parsed
LoadFail ==
    /\ pc = "start"
    /\ Crash("read_csv")
    /\ stdout' = print(stdout, "Loading test data...", <<>>)
    /\ UNCHANGED <<csv, listing, data, dropped, references, original_predictions,
                   vectorizer, reference_vectors, original_pred_vectors, fit_count,
                   model_dirs, k, loaded, max_length, bart_predictions,
                   results_per_sample, files, writes, metric_calls, call, ret>>

\* lines 93-96
FitVectorizer ==
    /\ pc = "loaded"
    /\ LET fitted == fit(references \o original_predictions) IN
       IF fitted.raised = None
       THEN /\ vectorizer' = fitted.value
            /\ reference_vectors' = transform(fitted.value, references)
            /\ original_pred_vectors' = transform(fitted.value, original_predictions)
            /\ pc' = "fitted"
            /\ error' = error
       ELSE /\ Crash("vectorizer.fit")
            /\ UNCHANGED <<vectorizer, reference_vectors, original_pred_vectors>>
    /\ fit_count' = fit_count + 1
    /\ UNCHANGED <<csv, listing, data, dropped, references, original_predictions,
                   model_dirs, k, loaded, max_length, bart_predictions,
                   results_per_sample, files, writes, stdout, metric_calls, call, ret>>

\* lines 99-105
Discover ==
    /\ pc = "fitted"
    /\ model_dirs' = discover(listing)
    /\ IF model_dirs' = <<>>
       THEN /\ stdout' = print(stdout, "No BART model directories found matching 'bart_minimal*'. Exiting.", <<>>)
            /\ pc' = "exited"
            /\ k' = k
       ELSE /\ stdout' = stdout
            /\ pc' = "load_model"
            /\ k' = 1
    /\ UNCHANGED <<csv, listing, data, dropped, references, original_predictions,
                   vectorizer, reference_vectors, original_pred_vectors, fit_count,
                   loaded, max_length, bart_predictions, results_per_sample, files,
                   writes, metric_calls, error, call, ret>>

\* where the loops over the samples go next
AfterGenerating(done) ==
    IF done < Len(original_predictions) THEN "generate"
    ELSE IF done > 0 THEN "score" ELSE "write_detailed"

\* the table written from inside the scoring loop
AfterScoringEarly(done) == "write_detailed"

AfterScoring(done) ==
    IF done < Len(bart_predictions) THEN "score" ELSE "write_detailed"

\* lines 109-126: the model and the tokenizer load, the length is read off the name
LoadModel ==
    /\ pc = "load_model"
    /\ loaded' = Append(loaded, model_dirs[k])
    /\ max_length' = get_max_length_from_dir(model_dirs[k], DEFAULT_MAX_LENGTH).value
    /\ bart_predictions' = <<>>
    /\ pc' = AfterGenerating(0)
    /\ IF pc' = "write_detailed"
       THEN results_per_sample' = <<>> /\ metric_calls' = <<>>
       ELSE UNCHANGED <<results_per_sample, metric_calls>>
    /\ LET out1 == print(stdout, "Evaluating BART model in: ", model_dirs[k])
           out2 == print(out1, "Using max_length= for generation...", <<max_length'>>)
           out3 == print(out2, "Generating corrected predictions...", <<>>)
       IN stdout' = IF pc' = "write_detailed"
                    THEN print(out3, "Computing metrics for each sample...", <<>>)
                    ELSE out3
    /\ UNCHANGED <<csv, listing, data, dropped, references, original_predictions,
                   vectorizer, reference_vectors, original_pred_vectors, fit_count,
                   model_dirs, k, files, writes, error, call, ret>>

\* lines 112-118 raising
LoadModelFail ==
    /\ pc = "load_model"
    /\ Crash("from_pretrained")
    /\ stdout' = print(stdout, "Evaluating BART model in: ", model_dirs[k])
    /\ UNCHANGED <<csv, listing, data, dropped, references, original_predictions,
                   vectorizer, reference_vectors, original_pred_vectors, fit_count,
                   model_dirs, k, loaded, max_length, bart_predictions,
                   results_per_sample, files, writes, metric_calls, call, ret>>

\* lines 127-140, one iteration
GenerateOne ==
    /\ pc = "generate"
    /\ LET pred_text == original_predictions[Len(bart_predictions) + 1] IN
       bart_predictions' =
           Append(bart_predictions, generate_corrected(model_dirs[k], max_length, pred_text))
    /\ pc' = AfterGenerating(Len(bart_predictions'))
    /\ IF pc' = "score"
       THEN /\ results_per_sample' = <<>>
            /\ metric_calls' = <<>>
            /\ stdout' = print(stdout, "Computing metrics for each sample...", <<>>)
       ELSE UNCHANGED <<results_per_sample, metric_calls, stdout>>
    /\ UNCHANGED <<csv, listing, data, dropped, references, original_predictions,
                   vectorizer, reference_vectors, original_pred_vectors, fit_count,
                   model_dirs, k, loaded, max_length, files, writes, error, call, ret>>

\* lines 128-139 raising
GenerateFail ==
    /\ pc = "generate"
    /\ Crash("generate")
    /\ UNCHANGED <<csv, listing, data, dropped, references, original_predictions,
                   vectorizer, reference_vectors, original_pred_vectors, fit_count,
                   model_dirs, k, loaded, max_length, bart_predictions,
                   results_per_sample, files, writes, stdout, metric_calls, call, ret>>

\* lines 145-172, one iteration
ScoreOne ==
    /\ pc = "score"
    /\ LET i == Len(results_per_sample) + 1
           ref == references[i]
           bart_pred == bart_predictions[i]
       IN \E scores \in LibraryScores :
            /\ results_per_sample' =
                 Append(results_per_sample,
                        result_row(model_dirs[k], ref, original_predictions[i],
                                   bart_pred, scores))
            /\ metric_calls' =
                 Append(metric_calls,
                        metric_args(references, reference_vectors, vectorizer, i, bart_pred))
    /\ pc' = AfterScoring(Len(results_per_sample'))
    /\ UNCHANGED <<csv, listing, data, dropped, references, original_predictions,
                   vectorizer, reference_vectors, original_pred_vectors, fit_count,
                   model_dirs, k, loaded, max_length, bart_predictions, files, writes,
                   stdout, error, call, ret>>

\* lines 152-161 raising
ScoreFail ==
    /\ pc = "score"
    /\ Crash("score")
    /\ UNCHANGED <<csv, listing, data, dropped, references, original_predictions,
                   vectorizer, reference_vectors, original_pred_vectors, fit_count,
                   model_dirs, k, loaded, max_length, bart_predictions,
                   results_per_sample, files, writes, stdout, metric_calls, call, ret>>

\* what a to_csv call leaves unchanged
WriteFrame ==
    UNCHANGED <<csv, listing, data, dropped, references, original_predictions,
                vectorizer, reference_vectors, original_pred_vectors, fit_count,
                model_dirs, loaded, max_length, bart_predictions, results_per_sample,
                metric_calls, error, call, ret>>

\* lines 175-180
WriteDetailed ==
    /\ pc = "write_detailed"
    /\ files' = to_csv(files, output_file(model_dirs[k]), results_per_sample)
    /\ writes' = Append(writes, <<k, output_file(model_dirs[k])>>)
    /\ pc' = "write_summary"
    /\ stdout' = print(stdout, "Saving per-sample evaluation results to ",
                       output_file(model_dirs[k]))
    /\ k' = k
    /\ WriteFrame

\* lines 183-195
WriteSummary ==
    /\ pc = "write_summary"
    /\ files' = to_csv(files, summary_file(model_dirs[k]), summary_table(results_per_sample))
    /\ writes' = Append(writes, <<k, summary_file(model_dirs[k])>>)
    /\ pc' = "write_outliers"
    /\ stdout' = print(stdout, "Saving summary (including outliers) results to ",
                       summary_file(model_dirs[k]))
    /\ k' = k
    /\ WriteFrame

\* lines 198-208: the last file of the model, then the next model or the end
WriteOutliers ==
    /\ pc = "write_outliers"
    /\ files' = to_csv(files, outlier_counts_file(model_dirs[k]),
                       count_outliers(results_per_sample))
    /\ writes' = Append(writes, <<k, outlier_counts_file(model_dirs[k])>>)
    /\ LET out == print(stdout, "Saving outlier counts to ",
                        outlier_counts_file(model_dirs[k]))
       IN IF k < Len(model_dirs)
          THEN /\ k' = k + 1
               /\ pc' = "load_model"
               /\ stdout' = out
          ELSE /\ k' = k
               /\ pc' = "done"
               /\ stdout' = print(out, "BART Evaluation complete and saved.", <<>>)
    /\ WriteFrame

\* a to_csv call raising, after the line that announces the file
WriteFail ==
    /\ pc \in {"write_detailed", "write_summary", "write_outliers"}
    /\ Crash("to_csv")
    /\ stdout' =
         CASE pc = "write_detailed" ->
                print(stdout, "Saving per-sample evaluation results to ",
                      output_file(model_dirs[k]))
           [] pc = "write_summary" ->
                print(stdout, "Saving summary (including outliers) results to ",
                      summary_file(model_dirs[k]))
           [] OTHER ->
                print(stdout, "Saving outlier counts to ",
                      outlier_counts_file(model_dirs[k]))
    /\ UNCHANGED <<csv, listing, data, dropped, references, original_predictions,
                   vectorizer, reference_vectors, original_pred_vectors, fit_count,
                   model_dirs, k, loaded, max_length, bart_predictions,
                   results_per_sample, files, writes, metric_calls, call, ret>>

Next ==
    \/ Load
    \/ LoadFail
    \/ FitVectorizer
    \/ Discover
    \/ LoadModel
    \/ LoadModelFail
    \/ GenerateOne
    \/ GenerateFail
    \/ ScoreOne
    \/ ScoreFail
    \/ WriteDetailed
    \/ WriteSummary
    \/ WriteOutliers
    \/ WriteFail

Spec == Init /\ [][Next]_vars

-----------------------------------------------------------------------------
(* The loader on its own *)

InitLoader ==
    /\ pc = "start"
    /\ csv \in SeqsUpTo(LoaderRows, MaxRows)
    /\ listing = <<>>
    /\ call = NoCall
    /\ Unassigned

NextLoader == Load \/ LoadFail

SpecLoader == InitLoader /\ [][NextLoader]_vars

-----------------------------------------------------------------------------
(* get_max_length_from_dir on its own *)

\* what a directory name is built from after the prefix
NamePieces == {ML_MARKER, <<"3">>, <<"2">>, <<"_">>, <<"-">>, <<"x">>}

RECURSIVE Concat(_)
Concat(pieces) == IF pieces = <<>> THEN <<>> ELSE Head(pieces) \o Concat(Tail(pieces))

DirNames == {PREFIX \o Concat(ps) : ps \in SeqsUpTo(NamePieces, MaxPieces)}

InitParse ==
    /\ pc = "call"
    /\ csv = <<>>
    /\ listing = <<>>
    /\ \E name \in DirNames, default \in {64, DEFAULT_MAX_LENGTH} :
         call = [fn |-> "get_max_length_from_dir", dir_name |-> name,
                 default |-> default, df |-> <<>>]
    /\ Unassigned

CallFrame ==
    UNCHANGED <<csv, listing, data, dropped, references, original_predictions,
                vectorizer, reference_vectors, original_pred_vectors, fit_count,
                model_dirs, k, loaded, max_length, bart_predictions,
                results_per_sample, files, writes, stdout, metric_calls, error, call>>

CallGetMaxLength ==
    /\ pc = "call"
    /\ call.fn = "get_max_length_from_dir"
    /\ ret' = get_max_length_from_dir(call.dir_name, call.default)
    /\ pc' = "returned"
    /\ CallFrame

SpecParse == InitParse /\ [][CallGetMaxLength]_vars

-----------------------------------------------------------------------------
(* count_outliers on its own *)

\* rows of a detailed table: values inside, above and below the valid
\* intervals, and NaN
MetricRows ==
    { [m \in {"WER", "CER", "BLEU", "Cosine Similarity"} |->
         CASE m = "WER" -> w [] m = "CER" -> c [] m = "BLEU" -> b [] OTHER -> s] :
        w \in {Num(1, 2), Num(3, 2)},
        c \in {Num(1, 1), Num(3, 2)},
        b \in {Num(0 - 1, 1), Num(100, 1), Num(201, 2)},
        s \in {Num(1, 1), Num(3, 2), NaN} }

InitOutliers ==
    /\ pc = "call"
    /\ csv = <<>>
    /\ listing = <<>>
    /\ \E df \in SeqsUpTo(MetricRows, MaxRecs) :
         call = [fn |-> "count_outliers", dir_name |-> <<>>, default |-> 0, df |-> df]
    /\ Unassigned

CallCountOutliers ==
    /\ pc = "call"
    /\ call.fn = "count_outliers"
    /\ ret' = Return(count_outliers(call.df))
    /\ pc' = "returned"
    /\ CallFrame

SpecOutliers == InitOutliers /\ [][CallCountOutliers]_vars

-----------------------------------------------------------------------------
(* Claims about get_max_length_from_dir *)

MarkerAt(name, i) ==
    /\ i + 2 <= Len(name)
    /\ name[i] = "_" /\ name[i + 1] = "m" /\ name[i + 2] = "l"

MarkerPresent(name) == \E i \in 1..Len(name) : MarkerAt(name, i)

\* what follows the last marker of the name
TrailingToken(name) ==
    LET last == CHOOSE i \in 1..Len(name) :
                    MarkerAt(name, i) /\ \A j \in (i + 1)..Len(name) : ~MarkerAt(name, j)
    IN SubSeq(name, last + 3, Len(name))

AllDigits(tok) == tok # <<>> /\ \A i \in 1..Len(tok) : IsDigit(tok[i])

RECURSIVE Pow10(_)
Pow10(n) == IF n = 0 THEN 1 ELSE 10 * Pow10(n - 1)

RECURSIVE SumTo(_, _)
SumTo(f, n) == IF n = 0 THEN 0 ELSE f[n] + SumTo(f, n - 1)

\* the number a string of digits writes
DigitsNumber(tok) ==
    SumTo([i \in 1..Len(tok) |-> DigitVal(tok[i]) * Pow10(Len(tok) - i)], Len(tok))

Returned(fn) == pc = "returned" /\ call.fn = fn

\* C1: get_max_length_from_dir never raises; it returns the integer after
\* the marker '_ml' when the marker is present and followed by valid
\* digits, and the supplied default in every other case.
C1_DigitsElseDefault ==
    Returned("get_max_length_from_dir") =>
        /\ ret.raised = None
        /\ ret.value =
             IF MarkerPresent(call.dir_name) /\ AllDigits(TrailingToken(call.dir_name))
             THEN DigitsNumber(TrailingToken(call.dir_name))
             ELSE call.default

-----------------------------------------------------------------------------
(* Claims about the loader *)

MissingInSource(field) == field = <<>> \/ field \in NA_MARKERS

BothMissing(row) ==
    /\ MissingInSource(row["True Transcription"])
    /\ MissingInSource(row["Predicted Transcription"])

BothPresent(row) ==
    /\ ~MissingInSource(row["True Transcription"])
    /\ ~MissingInSource(row["Predicted Transcription"])

\* the row of the file that the DataFrame labelled l
SourceRow(l) == csv[l + 1]

\* C2 as stated: every row the loader drops has both required fields
\* missing in the source, and no row with both present is dropped.
C2_DroppedHaveBothMissing ==
    pc = "loaded" =>
        /\ \A l \in dropped : BothMissing(SourceRow(l))
        /\ \A j \in 1..Len(csv) : BothPresent(csv[j]) => (j - 1) \notin dropped

\* C2 amended: every row the loader drops has at least one of the two
\* required fields missing in the source; no row with both fields present
\* is ever dropped.
C2_DroppedHaveOneMissing ==
    pc = "loaded" =>
        /\ dropped \subseteq {j - 1 : j \in 1..Len(csv)}
        /\ \A l \in dropped : ~BothPresent(SourceRow(l))
        /\ \A j \in 1..Len(csv) : BothPresent(csv[j]) => (j - 1) \notin dropped

\* a row was dropped for one missing field while its other field is there
C2_Witness ==
    /\ pc = "loaded"
    /\ \E l \in dropped :
         /\ ~BothMissing(SourceRow(l))
         /\ MissingInSource(SourceRow(l)["Predicted Transcription"])
    /\ \E j \in 1..Len(csv) : BothPresent(csv[j])

\* the number of complete rows among the first j rows of the file
Rank(j) == Cardinality({i \in 1..j : BothPresent(csv[i])})

\* C3: the loader keeps exactly the rows with both required fields
\* present, in their original order, as two index-aligned sequences of
\* equal length.
C3_KeepsCompleteRowsInOrder ==
    pc = "loaded" =>
        /\ Len(references) = Rank(Len(csv))
        /\ Len(original_predictions) = Len(references)
        /\ Len(data) = Len(references)
        /\ \A j \in 1..Len(csv) :
             IF BothPresent(csv[j])
             THEN /\ (j - 1) \notin dropped
                  /\ references[Rank(j)] = Str(csv[j]["True Transcription"])
                  /\ original_predictions[Rank(j)] = Str(csv[j]["Predicted Transcription"])
                  /\ data[Rank(j)].label = Rank(j) - 1
             ELSE (j - 1) \in dropped

\* three complete rows and one row missing only its prediction give 3 samples
C3_Witness ==
    /\ pc = "loaded"
    /\ Len(csv) = 4
    /\ Rank(4) = 3
    /\ \E j \in 1..4 :
         /\ ~MissingInSource(csv[j]["True Transcription"])
         /\ MissingInSource(csv[j]["Predicted Transcription"])
    /\ Len(references) = 3
    /\ references[1] # references[2]

-----------------------------------------------------------------------------
(* Claims about count_outliers *)

Lo(m) == 0

Hi(m) == IF m = "BLEU" THEN 100 ELSE 1

\* the value lies outside the valid interval of metric m
Violates(row, m) ==
    \/ row[m].nan
    \/ row[m].n < Lo(m) * row[m].d
    \/ row[m].n > Hi(m) * row[m].d

FourMetrics == {"BLEU", "WER", "CER", "Cosine Similarity"}

ViolatingRows(df, m) == {i \in 1..Len(df) : Violates(df[i], m)}

RECURSIVE SumOver(_, _)
SumOver(f, S) ==
    IF S = {} THEN 0
    ELSE LET x == CHOOSE y \in S : TRUE IN f[x] + SumOver(f, S \ {x})

\* C5: 'Total Outliers' is the number of samples that violate at least one
\* metric's valid interval, each counted once; so it is at least every
\* per-metric count and at most their sum.
C5_TotalCountsEachSampleOnce ==
    Returned("count_outliers") =>
        LET counts == ret.value
            df == call.df
        IN /\ DOMAIN counts = FourMetrics \cup {"Total Outliers"}
           /\ \A m \in FourMetrics : counts[m] = Cardinality(ViolatingRows(df, m))
           /\ counts["Total Outliers"] =
                Cardinality(UNION {ViolatingRows(df, m) : m \in FourMetrics})
           /\ \A m \in FourMetrics : counts["Total Outliers"] >= counts[m]
           /\ counts["Total Outliers"] <= SumOver(counts, FourMetrics)

\* a sample that violates two intervals is counted once, another violates none
C5_Witness ==
    /\ Returned("count_outliers")
    /\ Len(call.df) = 2
    /\ \E i \in 1..2 : Cardinality({m \in FourMetrics : Violates(call.df[i], m)}) >= 2
    /\ \E i \in 1..2 : \A m \in FourMetrics : ~Violates(call.df[i], m)
    /\ ret.value["Total Outliers"] = 1
    /\ SumOver(ret.value, FourMetrics) >= 2

-----------------------------------------------------------------------------
(* Claims about a full run *)

IsModelDir(e) ==
    /\ e.isdir
    /\ Len(e.name) >= Len(PREFIX)
    /\ SubSeq(e.name, 1, Len(PREFIX)) = PREFIX

NoModelDir == \A i \in 1..Len(listing) : ~IsModelDir(listing[i])

Halted == pc \in {"exited", "done", "crashed"}

NO_MODELS_MESSAGE == "No BART model directories found matching 'bart_minimal*'. Exiting."

Printed(msg) == \E i \in 1..Len(stdout) : stdout[i].text = msg

NSamples == Len(references)

FilesOf(dir) == {dir \o DETAILED_SUFFIX, dir \o SUMMARY_SUFFIX, dir \o OUTLIER_SUFFIX}

Written(name) == name \in DOMAIN files

AnyWritten(dir) == \E name \in FilesOf(dir) : Written(name)

HasFourMetrics(row) ==
    \A m \in FourMetrics : m \in DOMAIN row /\ row[m] \in {ls[m] : ls \in LibraryScores}

\* C6: if any of a model's three files has been written, the corrected
\* text was generated and the four metrics computed for every sample of
\* that model; a failure during its generation or scoring leaves none of
\* its files written.
C6_NoFileBeforeAllScored ==
    /\ \A j \in 1..Len(model_dirs) :
         AnyWritten(model_dirs[j]) =>
           /\ Written(model_dirs[j] \o DETAILED_SUFFIX)
           /\ LET table == files[model_dirs[j] \o DETAILED_SUFFIX] IN
                /\ Len(table) = NSamples
                /\ \A i \in 1..NSamples :
                     /\ table[i]["BART Corrected"].model = model_dirs[j]
                     /\ HasFourMetrics(table[i])
           /\ j = k =>
                /\ Len(bart_predictions) = NSamples
                /\ Len(results_per_sample) = NSamples
                /\ Len(metric_calls) = NSamples
    /\ (pc = "crashed" /\ error \in {"generate", "score"}) =>
         ~AnyWritten(model_dirs[k])

\* a model failed in scoring after its first sample was scored
C6_Witness ==
    /\ pc = "crashed"
    /\ error = "score"
    /\ NSamples = 2
    /\ Len(results_per_sample) = 1
    /\ k = 2
    /\ AnyWritten(model_dirs[1])

ProcessedBefore(j) == \A name \in FilesOf(model_dirs[j]) : Written(name)

\* C7: when loading the tokenizer or the model of a discovered directory
\* fails, the run halts there: nothing is written for that model, no later
\* model is loaded, evaluated or reported, and the load is not tried again.
C7_LoadFailureHaltsRun ==
    /\ [](error = "from_pretrained" =>
            /\ pc = "crashed"
            /\ loaded = SubSeq(model_dirs, 1, k - 1)
            /\ \A j \in k..Len(model_dirs) : ~AnyWritten(model_dirs[j])
            /\ \A w \in 1..Len(writes) : writes[w][1] < k)
    /\ [][error # "from_pretrained"]_vars

\* the first of two models failed to load
C7_Witness ==
    /\ error = "from_pretrained"
    /\ k = 1
    /\ Len(model_dirs) = 2

InModelPass ==
    pc \in {"load_model", "generate", "score", "write_detailed", "write_summary",
            "write_outliers"}

\* C8: the vectorizer is fit once, before any model is evaluated; no step
\* of a model's generation, scoring or reporting changes the vectorizer,
\* the reference vectors, references or original_predictions; and the
\* cosine similarity of sample i is taken between reference vector i and
\* the corrected text's vector in that same vectorizer.
C8_VectorizerFitOnceAndReadOnly ==
    /\ [](/\ fit_count <= 1
          /\ (InModelPass \/ loaded # <<>>) =>
                /\ fit_count = 1
                /\ vectorizer = fit(references \o original_predictions).value
                /\ reference_vectors =
                     [i \in 1..NSamples |-> [space |-> vectorizer, doc |-> references[i]]]
          /\ pc \in {"score", "write_detailed"} =>
                \A i \in 1..Len(metric_calls) :
                    metric_calls[i].cosine =
                        [ref_vector |-> [space |-> vectorizer, doc |-> references[i]],
                         bart_vector |-> [space |-> vectorizer, doc |-> bart_predictions[i]]])
    /\ [][InModelPass =>
            UNCHANGED <<vectorizer, reference_vectors, references,
                        original_predictions, fit_count>>]_vars

\* the second of two models has scored both samples
C8_Witness ==
    /\ pc = "write_detailed"
    /\ k = 2
    /\ Len(metric_calls) = 2
    /\ references[1] # references[2]
    /\ fit_count = 1

\* C9: every evaluated model's detailed table has one row per loaded
\* sample, in load order: row i holds references[i],
\* original_predictions[i], the text generated from original_predictions[i]
\* and the metrics computed from references[i] and that text; there are as
\* many corrected predictions and metric records as loaded samples.
C9_DetailedTableAligned ==
    /\ \A j \in 1..Len(model_dirs) :
         Written(model_dirs[j] \o DETAILED_SUFFIX) =>
           LET table == files[model_dirs[j] \o DETAILED_SUFFIX] IN
             /\ Len(table) = NSamples
             /\ \A i \in 1..NSamples :
                  /\ table[i]["Model"] = model_dirs[j]
                  /\ table[i]["True Transcription"] = references[i]
                  /\ table[i]["Original Prediction"] = original_predictions[i]
                  /\ table[i]["BART Corrected"].model = model_dirs[j]
                  /\ table[i]["BART Corrected"].inputs.text = original_predictions[i]
                  /\ HasFourMetrics(table[i])
    /\ pc \in {"write_detailed", "write_summary", "write_outliers"} =>
         /\ Len(bart_predictions) = NSamples
         /\ Len(results_per_sample) = NSamples
         /\ Len(metric_calls) = NSamples
         /\ \A i \in 1..NSamples :
              /\ results_per_sample[i]["True Transcription"] = references[i]
              /\ results_per_sample[i]["Original Prediction"] = original_predictions[i]
              /\ results_per_sample[i]["BART Corrected"] = bart_predictions[i]
              /\ bart_predictions[i].inputs.text = original_predictions[i]
              /\ metric_calls[i].wer = <<references[i], bart_predictions[i]>>
              /\ metric_calls[i].cer = <<references[i], bart_predictions[i]>>
              /\ metric_calls[i].bleu.hypotheses = <<bart_predictions[i]>>
              /\ metric_calls[i].bleu.refs = <<<<references[i]>>>>
              /\ metric_calls[i].cosine.ref_vector.doc = references[i]
              /\ metric_calls[i].cosine.bart_vector.doc = bart_predictions[i]

\* a run with two samples whose texts differ wrote a detailed table
C9_Witness ==
    /\ pc = "done"
    /\ NSamples = 2
    /\ references[1] # original_predictions[1]
    /\ Written(model_dirs[1] \o DETAILED_SUFFIX)

\* the file that the w-th to_csv call of a run writes
ExpectedWrite(w) ==
    LET j == ((w - 1) \div 3) + 1
        dir == model_dirs[j]
    IN <<j, CASE (w - 1) % 3 = 0 -> dir \o DETAILED_SUFFIX
              [] (w - 1) % 3 = 1 -> dir \o SUMMARY_SUFFIX
              [] OTHER -> dir \o OUTLIER_SUFFIX>>

\* C10: the models are evaluated one at a time in discovery order, each
\* one's three files written (detailed, summary, outlier counts) before
\* the next is loaded; so when the run halts on a failure in model k, all
\* the models before k have their three files, no file is written twice,
\* and no model writes a file of another.
C10_OneModelAtATime ==
    /\ \A w \in 1..Len(writes) : writes[w] = ExpectedWrite(w)
    /\ \A v, w \in 1..Len(writes) : v # w => writes[v][2] # writes[w][2]
    /\ DOMAIN files = {writes[w][2] : w \in 1..Len(writes)}
    /\ loaded = SubSeq(model_dirs, 1, Len(loaded))
    /\ Len(loaded) \in {k - 1, k}
    /\ Len(loaded) > 0 => Len(writes) >= 3 * (Len(loaded) - 1)
    /\ Len(writes) <= 3 * Len(loaded)
    /\ (InModelPass \/ (pc = "crashed" /\ k >= 1)) =>
         \A j \in 1..(k - 1) : ProcessedBefore(j)
    /\ pc = "done" => \A j \in 1..Len(model_dirs) : ProcessedBefore(j)

\* the second model failed while generating, after the first one's files
C10_Witness ==
    /\ pc = "crashed"
    /\ error = "generate"
    /\ k = 2
    /\ Len(writes) = 3
    /\ ProcessedBefore(1)

====
